---------------------------- MODULE Spec2Model ----------------------------
(*
  A model of the OneFlare crawler, src/crawl_V3.py: main() builds the
  settings, opens the browser session, runs OneFlareCrawler.run (category
  page, link harvest, one extraction per harvested URL), closes the session
  and exports the records.

  Text is a sequence of one-character strings, so that strip, replace,
  substring search, split and the \d+ pattern are computed character by
  character as Python computes them.  What a URL serves is unknown until
  the browser first loads it, and does not change afterwards during a run.
*)
EXTENDS Naturals, Sequences, FiniteSets

VARIABLES
    category_url,   \* CrawlerSettings.category_url as given on the command line
    web,            \* URL -> the page the site serves for it, once loaded
    catElems,       \* href attributes of the elements the links locator matched
    pc,             \* position of main()
    session,        \* "none" | "open" | "closed": the Chrome session
    quitCount,      \* number of driver.quit() calls
    exc,            \* exception in flight / that ended the run, "none" if none
    browser,        \* the current document: its URL and whether the number is revealed
    navigated,      \* URLs passed to driver.get, in order
    waitTimedOut,   \* the readiness wait of the links locator timed out
    links,          \* hrefs as returned by _collect_business_links
    idx,            \* position of the for loop of run() in links
    records,        \* run()'s records list
    exported,       \* what ExcelExporter.export wrote
    call,           \* "none" | "pending" | "returned": a single extractor call
    arg,            \* the argument of that call
    ret             \* its result

vars == <<category_url, web, catElems, pc, session, quitCount, exc, browser,
          navigated, waitTimedOut, links, idx, records, exported, call, arg, ret>>

crawlVars == <<category_url, web, catElems, pc, session, quitCount, exc, browser,
               navigated, waitTimedOut, links, idx, records, exported>>

-----------------------------------------------------------------------------
(* Bounds *)

MaxLinks == 4

MaxBlocks == 2

MaxTextLen == 4

-----------------------------------------------------------------------------
(* Text: Python str as a sequence of characters *)

NA == <<"N", "/", "A">>

\* The marker an operator returns when the Python call raises an exception
\* other than the ones it catches (it is no text: its only item is not a
\* character).
Raised == <<"WebDriverException">>

WebsiteLabel == <<"W", "e", "b", "s", "i", "t", "e", ":">>

AddressLabel == <<"A", "d", "d", "r", "e", "s", "s", ":">>

Digits == {"0", "1", "2", "3", "4", "5", "6", "7", "8", "9"}

IsDigit(c) == c \in Digits

IsSpace(c) == c \in {" ", "\t", "\n"}

RECURSIVE LStrip(_)
LStrip(s) == IF s = <<>> THEN s
             ELSE IF IsSpace(Head(s)) THEN LStrip(Tail(s)) ELSE s

RECURSIVE RStrip(_)
RStrip(s) == IF s = <<>> THEN s
             ELSE IF IsSpace(s[Len(s)]) THEN RStrip(SubSeq(s, 1, Len(s) - 1)) ELSE s

\* str.strip()
Strip(s) == RStrip(LStrip(s))

\* str.replace(c, "")
RECURSIVE RemoveChar(_, _)
RemoveChar(s, c) == IF s = <<>> THEN <<>>
                    ELSE IF Head(s) = c THEN RemoveChar(Tail(s), c)
                    ELSE <<Head(s)>> \o RemoveChar(Tail(s), c)

\* the greedy \d+ at the head of s
RECURSIVE TakeDigits(_)
TakeDigits(s) == IF s = <<>> THEN <<>>
                 ELSE IF IsDigit(Head(s)) THEN <<Head(s)>> \o TakeDigits(Tail(s))
                 ELSE <<>>

\* re.search(r"\d+", s): the group of the leftmost match, <<>> for no match
RECURSIVE ReSearchDigits(_)
ReSearchDigits(s) == IF s = <<>> THEN <<>>
                     ELSE IF IsDigit(Head(s)) THEN TakeDigits(s)
                     ELSE ReSearchDigits(Tail(s))

\* str.find(p) from position i (1-based), 0 when p does not occur
RECURSIVE FindFrom(_, _, _)
FindFrom(s, p, i) == IF i + Len(p) > Len(s) + 1 THEN 0
                     ELSE IF SubSeq(s, i, i + Len(p) - 1) = p THEN i
                     ELSE FindFrom(s, p, i + 1)

\* p in s
Contains(p, s) == FindFrom(s, p, 1) # 0

\* s.split(p, 1)[1], for s that contains p
SplitAfterFirst(s, p) == SubSeq(s, FindFrom(s, p, 1) + Len(p), Len(s))

-----------------------------------------------------------------------------
(* The page client: what find_element, element.text and click give *)

\* A lookup of one element: it is absent (NoSuchElementException), present with
\* a text, or the lookup or the text read raises another driver error.
Absent == [kind |-> "absent", text |-> <<>>]

Present(t) == [kind |-> "present", text |-> t]

LookupError == [kind |-> "error", text |-> <<>>]

\* The phone control: the text shown before and after the number is revealed,
\* and what a click does: "reveal", "toggle" (a second click hides the number
\* again) or "fail" (the click raises, e.g. element not interactable).
PhoneControl(shown, full, click) ==
    [kind |-> "present", text |-> shown, full |-> full, click |-> click]

NoPhone == [kind |-> "absent", text |-> <<>>, full |-> <<>>, click |-> "fail"]

-----------------------------------------------------------------------------
(* Field extractors of OneFlareCrawler *)

\* _safe_get_text without the fallback for an empty text
_safe_get_text_no_default(el, default) ==
    CASE el.kind = "absent" -> default
      [] el.kind = "error" -> Raised
      [] OTHER -> Strip(el.text)

\* Only NoSuchElementException is caught; any other error leaves the method.
_safe_get_text(el, default) ==
    CASE el.kind = "absent" -> default
      [] el.kind = "error" -> Raised
      [] OTHER -> LET text == Strip(el.text)
                  IN  IF text # <<>> THEN text ELSE default

\* _extract_jobs_completed searching the text with its commas left in
_extract_jobs_keep_commas(el) ==
    LET text == _safe_get_text(el, NA)
    IN  IF text = Raised THEN Raised
        ELSE IF text = NA THEN text
        ELSE LET match == ReSearchDigits(text)
             IN  IF match # <<>> THEN match ELSE NA

_extract_jobs_completed(el) ==
    LET text == _safe_get_text(el, NA)
    IN  IF text = Raised THEN Raised
        ELSE IF text = NA THEN text
        ELSE LET match == ReSearchDigits(RemoveChar(text, ","))
             IN  IF match # <<>> THEN match ELSE NA

\* phone_element.click(): whether the number is revealed afterwards.  A click
\* that raises is caught and leaves the document as it was.
Click(el, revealed) ==
    CASE el.click = "reveal" -> TRUE
      [] el.click = "toggle" -> ~revealed
      [] OTHER -> revealed

\* The text read and the document's state after the click.
_extract_phone_number(el, revealed) ==
    IF el.kind = "absent"
    THEN [text |-> NA, revealed |-> revealed]
    ELSE LET after == Click(el, revealed)
             text  == Strip(IF after THEN el.full ELSE el.text)
         IN  [text |-> IF text # <<>> THEN text ELSE NA, revealed |-> after]

\* _extract_detail_by_label matching the label at the start of a block only
RECURSIVE _extract_detail_by_prefix(_, _)
_extract_detail_by_prefix(elements, label) ==
    IF elements = <<>> THEN NA
    ELSE LET raw_text == Strip(Head(elements))
         IN  IF FindFrom(raw_text, label, 1) = 1
             THEN LET value == Strip(SplitAfterFirst(raw_text, label))
                  IN  IF value # <<>> THEN value ELSE NA
             ELSE _extract_detail_by_prefix(Tail(elements), label)

\* The for loop over the detail blocks: the first block that contains the
\* label decides.
RECURSIVE _extract_detail_by_label(_, _)
_extract_detail_by_label(elements, label) ==
    IF elements = <<>> THEN NA
    ELSE LET raw_text == Strip(Head(elements))
         IN  IF Contains(label, raw_text)
             THEN LET value == Strip(SplitAfterFirst(raw_text, label))
                  IN  IF value # <<>> THEN value ELSE NA
             ELSE _extract_detail_by_label(Tail(elements), label)

-----------------------------------------------------------------------------
(* The site: URLs and the pages they serve *)

CategoryURL == "https://www.oneflare.com.au/air-conditioning"

URLs == {"u1", "u2"}

\* href values of the link elements: absent (None), empty, or a URL
NoneHref == "None"

Hrefs == {NoneHref, ""} \cup URLs

NameAcme == <<"A", "c", "m", "e">>

JobsExampleText ==
    <<"1", ",", "2", "3", "4", " ", "j", "o", "b", "s", " ",
      "c", "o", "m", "p", "l", "e", "t", "e", "d">>

PhoneMasked == <<"0", "4", "x", "x">>

PhoneFull == <<"0", "4", "1", "2">>

AcmeSite == <<"h", "t", "t", "p", "s", ":", "/", "/", "a", "c", "m", "e",
              ".", "t", "e", "s", "t">>

MainSt == <<"1", " ", "M", "a", "i", "n", " ", "S", "t">>

ExampleBlocks ==
    << <<"H", "o", "u", "r", "s", ":", " ", "9", "-", "5">>,
       WebsiteLabel \o <<" ">> \o AcmeSite,
       AddressLabel \o <<" ">> \o MainSt >>

\* every element present, the click reveals the number
PageFull ==
    [nav |-> "ok", name |-> Present(NameAcme), jobs |-> Present(JobsExampleText),
     phone |-> PhoneControl(PhoneMasked, PhoneFull, "reveal"),
     blocks |-> ExampleBlocks]

\* as PageFull, but a second click on the same document hides the number again
PageToggle ==
    [nav |-> "ok", name |-> Present(NameAcme), jobs |-> Present(<<"7">>),
     phone |-> PhoneControl(PhoneMasked, PhoneFull, "toggle"),
     blocks |-> << AddressLabel \o MainSt >>]

\* every element present with an empty or valueless text, the click raises
PageBlank ==
    [nav |-> "ok", name |-> Present(<<" ">>), jobs |-> Present(<<"n", "e", "w">>),
     phone |-> PhoneControl(<<>>, PhoneFull, "fail"),
     blocks |-> << WebsiteLabel \o <<" ">> >>]

\* no element matches any locator
PageMissing ==
    [nav |-> "ok", name |-> Absent, jobs |-> Absent, phone |-> NoPhone,
     blocks |-> <<>>]

\* driver.get raises
PageNavFail ==
    [nav |-> "fail", name |-> Absent, jobs |-> Absent, phone |-> NoPhone,
     blocks |-> <<>>]

\* the name lookup raises a driver error that is no NoSuchElementException
PageStale ==
    [nav |-> "ok", name |-> LookupError, jobs |-> Present(<<"7">>),
     phone |-> PhoneControl(PhoneMasked, PhoneFull, "reveal"),
     blocks |-> ExampleBlocks]

Pages == {PageFull, PageToggle, PageBlank, PageMissing, PageNavFail, PageStale}

\* a URL the browser has not loaded yet
NotLoaded ==
    [nav |-> "unknown", name |-> Absent, jobs |-> Absent, phone |-> NoPhone,
     blocks |-> <<>>]

\* what the site may serve for u: anything at first, the same page from then on
Serves(u) == IF web[u] = NotLoaded THEN Pages ELSE {web[u]}

RECURSIVE SeqsUpTo(_, _)
SeqsUpTo(S, n) ==
    IF n = 0 THEN {<<>>}
    ELSE LET shorter == SeqsUpTo(S, n - 1)
         IN  shorter \cup {Append(s, x) : s \in shorter, x \in S}

-----------------------------------------------------------------------------
(* OneFlareCrawler *)

BusinessRecord(name, jobs, phone, website, address, url) ==
    [business_name |-> name, jobs_completed |-> jobs, phone_number |-> phone,
     website_url |-> website, address |-> address, url |-> url]

Columns == <<"business_name", "jobs_completed", "phone_number", "website_url",
             "address", "url">>

\* a driver.get that leaves the document alone when it already shows url
NavigateKeepsDocument(b, url) ==
    IF b.url = url THEN b ELSE [url |-> url, revealed |-> FALSE]

\* driver.get(url): the document is loaded afresh
Navigate(b, url) == [url |-> url, revealed |-> FALSE]

\* The extractors that only read the page, applied to each page the site may
\* serve (a table, so that the texts are processed once per page).
PageFields ==
    [page \in Pages |->
        [name |-> _safe_get_text(page.name, NA),
         jobs |-> _extract_jobs_completed(page.jobs),
         website |-> _extract_detail_by_label(page.blocks, WebsiteLabel),
         address |-> _extract_detail_by_label(page.blocks, AddressLabel)]]

\* The result of one call: whether it raised, the record built, and the
\* document it leaves in the browser; page is what the site serves for url.
\* An extractor that raises ends the call before the later ones run.  The
\* readiness wait for the name is caught when it times out, and it and the
\* delays leave the page as it is: what the extractors read is page itself.
_extract_business_data(url, b, page) ==
    LET doc  == Navigate(b, url)
        failed(d) == [raised |-> TRUE, browser |-> d,
                      record |-> BusinessRecord(<<>>, <<>>, <<>>, <<>>, <<>>, url)]
    IN  IF page.nav = "fail" THEN failed(b)
        ELSE LET name == PageFields[page].name
                 jobs == PageFields[page].jobs
                 phone == _extract_phone_number(page.phone, doc.revealed)
                 website == PageFields[page].website
                 address == PageFields[page].address
                 clicked == [doc EXCEPT !.revealed = phone.revealed]
             IN  IF name = Raised THEN failed(doc)
                 ELSE IF jobs = Raised THEN failed(doc)
                 ELSE [raised |-> FALSE, browser |-> clicked,
                       record |-> BusinessRecord(name, jobs, phone.text, website,
                                                 address, url)]

\* if href: hrefs.append(href)
Truthy(href) == href \notin {NoneHref, ""}

RECURSIVE HrefLoop(_)
HrefLoop(elems) ==
    IF elems = <<>> THEN <<>>
    ELSE IF Truthy(Head(elems)) THEN <<Head(elems)>> \o HrefLoop(Tail(elems))
    ELSE HrefLoop(Tail(elems))

\* _collect_business_links letting the TimeoutException of the wait escape
_collect_business_links_no_catch(elems, timedOut) ==
    [raised |-> timedOut, hrefs |-> HrefLoop(elems)]

\* The TimeoutException of the readiness wait is caught and logged.
_collect_business_links(elems, timedOut) ==
    [raised |-> FALSE, hrefs |-> HrefLoop(elems)]

-----------------------------------------------------------------------------
(* main() *)

\* a __post_init__ that accepts any category URL
__post_init__unchecked(url) == TRUE

\* CrawlerSettings.__post_init__: whether construction succeeds
__post_init__(url) == url # ""

\* main() without the finally: an exception leaves main() at once
RunExitNoFinally(e) == IF e = "none" THEN "finally" ELSE "raised"

\* try: records = crawler.run()  finally: driver.quit()
\* where control goes when run() ends, with or without an exception in flight
RunExit(e) == "finally"

Init ==
    /\ category_url \in {"", CategoryURL}
    /\ web = [u \in URLs |-> NotLoaded]
    /\ catElems = <<>>
    /\ pc = "settings"
    /\ session = "none"
    /\ quitCount = 0
    /\ exc = "none"
    /\ browser = [url |-> "about:blank", revealed |-> FALSE]
    /\ navigated = <<>>
    /\ waitTimedOut = FALSE
    /\ links = <<>>
    /\ idx = 0
    /\ records = <<>>
    /\ exported = [written |-> FALSE, columns |-> <<>>, rows |-> <<>>]
    /\ call = "none"
    /\ arg = <<>>
    /\ ret = <<>>

ConstructSettings ==
    /\ pc = "settings"
    /\ IF __post_init__(category_url)
       THEN pc' = "create_driver" /\ exc' = exc
       ELSE pc' = "raised" /\ exc' = "ValueError"
    /\ UNCHANGED <<category_url, web, catElems, session, quitCount, browser,
                   navigated, waitTimedOut, links, idx, records, exported,
                   call, arg, ret>>

CreateChromeDriver ==
    /\ pc = "create_driver"
    /\ \E started \in BOOLEAN :
         IF started
         THEN session' = "open" /\ pc' = "load_category" /\ exc' = exc
         ELSE session' = session /\ pc' = "raised" /\ exc' = "WebDriverException"
    /\ UNCHANGED <<category_url, web, catElems, quitCount, browser, navigated,
                   waitTimedOut, links, idx, records, exported, call, arg, ret>>

_load_category_page ==
    /\ pc = "load_category"
    /\ navigated' = Append(navigated, category_url)
    /\ \E loaded \in BOOLEAN :
         IF loaded
         THEN browser' = Navigate(browser, category_url)
              /\ pc' = "collect_links" /\ exc' = exc
         ELSE browser' = browser
              /\ pc' = RunExit("WebDriverException") /\ exc' = "WebDriverException"
    /\ UNCHANGED <<category_url, web, catElems, session, quitCount, waitTimedOut,
                   links, idx, records, exported, call, arg, ret>>

CollectLinks ==
    /\ pc = "collect_links"
    /\ \E timedOut \in BOOLEAN, elems \in SeqsUpTo(Hrefs, MaxLinks) :
         LET r == _collect_business_links(elems, timedOut)
         IN  /\ waitTimedOut' = timedOut
             /\ catElems' = elems
             /\ IF r.raised
                THEN /\ pc' = RunExit("TimeoutException")
                     /\ exc' = "TimeoutException"
                     /\ UNCHANGED <<links, idx>>
                ELSE /\ pc' = "extracting"
                     /\ exc' = exc
                     /\ links' = r.hrefs
                     /\ idx' = 1
    /\ UNCHANGED <<category_url, web, session, quitCount, browser,
                   navigated, records, exported, call, arg, ret>>

\* the loop body without its try/except: a failing extraction ends run()
ExtractNextNoIsolation ==
    /\ pc = "extracting"
    /\ idx <= Len(links)
    /\ \E page \in Serves(links[idx]) :
         LET r == _extract_business_data(links[idx], browser, page)
         IN  /\ web' = [web EXCEPT ![links[idx]] = page]
             /\ records' = IF r.raised THEN records ELSE Append(records, r.record)
             /\ browser' = r.browser
             /\ pc' = IF r.raised THEN RunExit("WebDriverException") ELSE pc
             /\ exc' = IF r.raised THEN "WebDriverException" ELSE exc
    /\ navigated' = Append(navigated, links[idx])
    /\ idx' = idx + 1
    /\ UNCHANGED <<category_url, catElems, session, quitCount,
                   waitTimedOut, links, exported, call, arg, ret>>

\* one iteration of "for url in links" in run()
ExtractNext ==
    /\ pc = "extracting"
    /\ idx <= Len(links)
    /\ \E page \in Serves(links[idx]) :
         LET r == _extract_business_data(links[idx], browser, page)
         IN  /\ web' = [web EXCEPT ![links[idx]] = page]
             /\ records' = IF r.raised THEN records ELSE Append(records, r.record)
             /\ browser' = r.browser
    /\ navigated' = Append(navigated, links[idx])
    /\ idx' = idx + 1
    /\ UNCHANGED <<category_url, catElems, pc, session, quitCount, exc,
                   waitTimedOut, links, exported, call, arg, ret>>

\* return records
ReturnRecords ==
    /\ pc = "extracting"
    /\ idx > Len(links)
    /\ pc' = RunExit("none")
    /\ UNCHANGED <<category_url, web, catElems, session, quitCount, exc, browser,
                   navigated, waitTimedOut, links, idx, records, exported,
                   call, arg, ret>>

\* finally: driver.quit(); an exception in flight is then raised again
Quit ==
    /\ pc = "finally"
    /\ session' = "closed"
    /\ quitCount' = quitCount + 1
    /\ pc' = IF exc = "none" THEN "export" ELSE "raised"
    /\ UNCHANGED <<category_url, web, catElems, exc, browser, navigated,
                   waitTimedOut, links, idx, records, exported, call, arg, ret>>

\* ExcelExporter.export(records, settings.output_file)
Export ==
    /\ pc = "export"
    /\ exported' = [written |-> TRUE, columns |-> Columns, rows |-> records]
    /\ pc' = "done"
    /\ UNCHANGED <<category_url, web, catElems, session, quitCount, exc, browser,
                   navigated, waitTimedOut, links, idx, records, call, arg, ret>>

Next ==
    \/ ConstructSettings
    \/ CreateChromeDriver
    \/ _load_category_page
    \/ CollectLinks
    \/ ExtractNext
    \/ ReturnRecords
    \/ Quit
    \/ Export

Spec == Init /\ [][Next]_vars

\* main() is one sequential program: it takes its next step whenever it has one
FairSpec == Spec /\ WF_vars(Next)

-----------------------------------------------------------------------------
(* Single calls of the pure extractors, on inputs drawn from bounded sets *)

\* no crawl is running: only the call under test takes steps
NoCrawl ==
    /\ category_url = CategoryURL
    /\ web = [u \in URLs |-> NotLoaded]
    /\ catElems = <<>>
    /\ pc = "unit"
    /\ session = "none"
    /\ quitCount = 0
    /\ exc = "none"
    /\ browser = [url |-> "about:blank", revealed |-> FALSE]
    /\ navigated = <<>>
    /\ waitTimedOut = FALSE
    /\ links = <<>>
    /\ idx = 0
    /\ records = <<>>
    /\ exported = [written |-> FALSE, columns |-> <<>>, rows |-> <<>>]

JobsAlphabet == {"1", "2", ",", " ", "j"}

JobsInputs ==
    {Absent, Present(JobsExampleText), Present(NA)}
        \cup {Present(t) : t \in SeqsUpTo(JobsAlphabet, MaxTextLen)}

InitJobs ==
    /\ NoCrawl
    /\ call = "pending"
    /\ arg \in JobsInputs
    /\ ret = <<>>

CallExtractJobs ==
    /\ call = "pending"
    /\ ret' = _extract_jobs_completed(arg)
    /\ call' = "returned"
    /\ UNCHANGED <<arg, crawlVars>>

NextJobs == CallExtractJobs

SpecJobs == InitJobs /\ [][NextJobs]_vars

\* block texts: something before a label, a label or none, something after it
DetailTexts ==
    {pre \o lab \o post :
        pre  \in {<<>>, <<" ">>, <<"x", " ">>},
        lab  \in {<<>>, WebsiteLabel, AddressLabel},
        post \in {<<>>, <<" ">>, <<" ", "w", " ">>,
                  <<"w", " ">> \o WebsiteLabel \o <<"z">>}}

DetailInputs ==
    {[elements |-> es, label |-> l] :
        es \in SeqsUpTo(DetailTexts, MaxBlocks) \cup {ExampleBlocks},
        l \in {WebsiteLabel, AddressLabel}}

InitDetail ==
    /\ NoCrawl
    /\ call = "pending"
    /\ arg \in DetailInputs
    /\ ret = <<>>

CallExtractDetail ==
    /\ call = "pending"
    /\ ret' = _extract_detail_by_label(arg.elements, arg.label)
    /\ call' = "returned"
    /\ UNCHANGED <<arg, crawlVars>>

NextDetail == CallExtractDetail

SpecDetail == InitDetail /\ [][NextDetail]_vars

-----------------------------------------------------------------------------
(* Properties *)

\* the call of _extract_business_data for u raises
ExtractionRaises(u) ==
    \/ web[u].nav = "fail"
    \/ web[u].name.kind = "error"
    \/ web[u].jobs.kind = "error"

Harvested == idx >= 1

RunReturned == pc \in {"export", "done"} \/ (pc = "finally" /\ exc = "none")

UrlsOf(rs) == [i \in DOMAIN rs |-> rs[i].url]

Survives(u) == ~ExtractionRaises(u)

FieldNames == {"business_name", "jobs_completed", "phone_number",
               "website_url", "address"}

\* C1: once the links are harvested, run() never raises, whichever URLs'
\* extraction raises; after each iteration, and so when run() returns, the
\* records are those of the non-failing URLs visited so far, in harvest order:
\* their number is the number of URLs minus the failing ones, and none carries
\* a failing URL.
C1_RunIsolatesFailures ==
    Harvested =>
        /\ exc = "none"
        /\ pc # "raised"
        /\ idx <= Len(links) + 1
        /\ LET visited == SubSeq(links, 1, idx - 1)
           IN  /\ UrlsOf(records) = SelectSeq(visited, Survives)
               /\ Len(records) = Len(visited)
                    - Cardinality({i \in DOMAIN visited : ExtractionRaises(visited[i])})
               /\ \A i \in DOMAIN records : ~ExtractionRaises(records[i].url)
        /\ RunReturned => idx = Len(links) + 1

\* three URLs harvested, the second one fails, run() has returned the other two
C1_Witness ==
    /\ pc = "done"
    /\ Len(links) = 3
    /\ ~ExtractionRaises(links[1])
    /\ ExtractionRaises(links[2])
    /\ ~ExtractionRaises(links[3])
    /\ UrlsOf(records) = <<links[1], links[3]>>

\* C2: driver.quit() is never called twice, and once the session is open it is
\* eventually closed by exactly one quit, whether run() returns or raises.
C2_SessionEventuallyClosed ==
    /\ [](quitCount <= 1)
    /\ (session = "open") ~> (session = "closed" /\ quitCount = 1)

\* the category page failed to load, and the session was closed all the same
C2_Witness ==
    /\ pc = "raised"
    /\ exc = "WebDriverException"
    /\ session = "closed"
    /\ quitCount = 1

\* C3: when the settings are valid and the session started, the run ends with
\* the export sink invoked on the collected records, whatever failed meanwhile.
C3_ExportAlwaysWritten ==
    (pc \in {"done", "raised"} /\ session # "none") =>
        (exported.written /\ exported.rows = records)

\* C4: an extractor whose lookup raises gives "N/A" and does not raise, so every
\* URL whose page loaded gets its record, with "N/A" for the name when it is
\* the name lookup that raised.
C4_ExtractorsNeverRaise ==
    Harvested =>
        /\ Len(records) =
              Cardinality({i \in 1..(idx - 1) : web[links[i]].nav = "ok"})
        /\ \A i \in DOMAIN records :
              web[records[i].url].name.kind = "error"
                  => records[i].business_name = NA

\* C5: every field of every record, collected or exported, is a non-empty
\* text, and a field whose element is missing or has an empty text is "N/A".
C5_RecordFieldsSet ==
    \A r \in {records[i] : i \in DOMAIN records}
            \cup {exported.rows[i] : i \in DOMAIN exported.rows} :
        /\ DOMAIN r = FieldNames \cup {"url"}
        /\ \A f \in FieldNames : r[f] # <<>> /\ r[f] # Raised
        /\ r.url \in URLs
        /\ LET page == web[r.url]
           IN  /\ (page.name.kind = "absent" \/ Strip(page.name.text) = <<>>)
                    => r.business_name = NA
               /\ (page.jobs.kind = "absent" \/ Strip(page.jobs.text) = <<>>)
                    => r.jobs_completed = NA
               /\ page.phone.kind = "absent" => r.phone_number = NA
               /\ page.blocks = <<>> => r.website_url = NA /\ r.address = NA

\* a record built from a page whose elements are all present with empty texts
C5_Witness ==
    \E i \in DOMAIN records :
        /\ web[records[i].url] = PageBlank
        /\ records[i].business_name = NA
        /\ records[i].phone_number = NA
        /\ records[i].website_url = NA

\* C6: with an empty category URL the construction of the settings raises at
\* once: no session is created, nothing is navigated to and nothing is written.
C6_EmptyCategoryUrlFailsFast ==
    category_url = "" =>
        /\ pc \in {"settings", "raised"}
        /\ pc = "raised" => exc = "ValueError"
        /\ session = "none"
        /\ quitCount = 0
        /\ navigated = <<>>
        /\ ~exported.written

C6_Witness == category_url = "" /\ pc = "raised" /\ exc = "ValueError"

\* C9: two records for the same URL are identical: the second extraction of a
\* page reads what the first one read, the phone number included.
C9_RepeatedExtractionIdentical ==
    \A i, j \in DOMAIN records :
        records[i].url = records[j].url => records[i] = records[j]

\* the same URL extracted twice on a page whose number a second click would hide
C9_Witness ==
    \E i, j \in DOMAIN records :
        /\ i < j
        /\ records[i].url = records[j].url
        /\ web[records[i].url] = PageToggle
        /\ records[j].phone_number = PhoneFull

\* C10: harvesting goes on after a readiness timeout, and gives the hrefs of
\* the matched elements in order, without the empty or absent ones, duplicates
\* kept; no links is no error.
C10_HarvestKeepsOrder ==
    /\ waitTimedOut => Harvested /\ exc = "none"
    /\ (pc \in {"extracting", "export", "done"}) => Harvested /\ exc = "none"
    /\ Harvested =>
         links = SelectSeq(catElems, LAMBDA h : h # NoneHref /\ h # "")

\* a timeout, an element without href and one with an empty href skipped, and
\* a URL harvested twice
C10_Witness ==
    /\ waitTimedOut
    /\ catElems = <<NoneHref, "u1", "", "u1">>
    /\ links = <<"u1", "u1">>
    /\ pc = "done"

\* t[i..j] is a maximal run of digits of t with no digit before it
FirstDigitRun(t, i, j) ==
    /\ 1 <= i /\ i <= j /\ j <= Len(t)
    /\ \A k \in i..j : t[k] \in Digits
    /\ \A k \in 1..(i - 1) : t[k] \notin Digits
    /\ j = Len(t) \/ t[j + 1] \notin Digits

\* C7: jobs-completed extraction gives the first contiguous run of digits of
\* the text without its commas ("1,234 jobs completed" gives "1234"), and
\* "N/A" when the block is absent or its text has no digit.
C7_JobsFirstDigitRun ==
    call = "returned" =>
        LET t == SelectSeq(arg.text, LAMBDA c : c # ",")
        IN  /\ arg.kind = "absent" => ret = NA
            /\ (\A k \in DOMAIN t : t[k] \notin Digits) => ret = NA
            /\ (arg.kind = "present" /\ \E k \in DOMAIN t : t[k] \in Digits) =>
                 \E i, j \in DOMAIN t :
                     FirstDigitRun(t, i, j) /\ ret = SubSeq(t, i, j)
            /\ arg = Present(JobsExampleText) => ret = <<"1", "2", "3", "4">>

\* the spec's example has been extracted, and its comma did not end the run
C7_Witness ==
    /\ call = "returned"
    /\ arg = Present(JobsExampleText)
    /\ ret = <<"1", "2", "3", "4">>

\* label occurs in t at position p
OccursAt(t, label, p) ==
    /\ p \in 1..(Len(t) + 1 - Len(label))
    /\ SubSeq(t, p, p + Len(label) - 1) = label

\* ret is what the first block that Matches gives, when Cut(t) is the part of
\* that block's trimmed text taken as the value; "N/A" if none matches
FirstMatchGives(Matches(_), Cut(_)) ==
    LET es == arg.elements
        hits == {i \in DOMAIN es : Matches(Strip(es[i]))}
    IN  IF hits = {} THEN ret = NA
        ELSE LET first == CHOOSE i \in hits : \A k \in hits : i <= k
                 value == Strip(Cut(Strip(es[first])))
             IN  ret = IF value = <<>> THEN NA ELSE value

ExampleGives ==
    arg.elements = ExampleBlocks =>
        ret = IF arg.label = WebsiteLabel THEN AcmeSite ELSE MainSt

\* C8 as stated: the first block whose text has the label as its prefix
\* decides, the value is the text after that prefix, trimmed, and the result
\* is "N/A" when no block has the label as prefix or the value is empty.
C8_FirstBlockWithLabelPrefix ==
    call = "returned" =>
        /\ FirstMatchGives(LAMBDA t : OccursAt(t, arg.label, 1),
                           LAMBDA t : SubSeq(t, Len(arg.label) + 1, Len(t)))
        /\ ExampleGives

\* C8 as amended: the first block whose trimmed text contains the label
\* anywhere decides, the value is the text after the first occurrence of the
\* label, trimmed, and the result is "N/A" when no block contains the label or
\* the value is empty.
C8_FirstBlockContainingLabel ==
    call = "returned" =>
        /\ FirstMatchGives(
             LAMBDA t : \E p \in 1..Len(t) : OccursAt(t, arg.label, p),
             LAMBDA t : LET p == CHOOSE q \in 1..Len(t) :
                                   /\ OccursAt(t, arg.label, q)
                                   /\ \A r \in 1..(q - 1) : ~OccursAt(t, arg.label, r)
                        IN  SubSeq(t, p + Len(arg.label), Len(t)))
        /\ ExampleGives

\* a block that carries the label after other text decided the result, though
\* a later block has the label as its prefix
C8_Witness ==
    /\ call = "returned"
    /\ arg.label = WebsiteLabel
    /\ arg.elements = << <<"x", " ">> \o WebsiteLabel \o <<" ", "w", " ">>,
                         WebsiteLabel >>
    /\ ret = <<"w">>

=============================================================================
